---- MODULE Spec2Model ----
(***************************************************************************)
(* A model of the WebGLRenderer of shadertoy-editor (renderers/webgl-       *)
(* renderer.ts): the compile/link life cycle of the active program, the    *)
(* play / pause / restart timeline, the frame loop, the pointer handlers   *)
(* and the translation of compiler diagnostics into user-source lines.     *)
(*                                                                         *)
(* Time is performance.now() in whole milliseconds; iTime and the time of  *)
(* getState() are kept in milliseconds (the code divides them by the       *)
(* constant 1000 when it hands them out).  A handler runs at one instant:  *)
(* every performance.now() it reads returns the same value `now`.          *)
(***************************************************************************)
EXTENDS Integers, Sequences, FiniteSets

\* ---------------------------------------------------------------- bounds
MaxTime == 3
MaxFrames == 3
MaxPrograms == 2
MaxUserLines == 2
MaxCoord == 2

\* The host element's bounding rectangle (getBoundingClientRect()).
RectLeft == 1
RectTop == 1
RectHeight == 2

\* --------------------------------------------------------------- helpers
\* A maximum that lets its second argument through.
Max_Second(a, b) == b

Max(a, b) == IF a >= b THEN a ELSE b

Abs(a) == IF a < 0 THEN -a ELSE a

\* ----------------------------------------------------------------- state
VARIABLES
    now,            \* performance.now(), ms
    program,        \* this.program: handle of the active program, 0 = null
    nextProgram,    \* the handle gl.createProgram() returns next
    released,       \* program handles passed to gl.deleteProgram()
    liveShaders,    \* shader objects created and not yet deleted
    isPlaying, startTime, pausedTime, lastFrameTime, frameCount,
    animationId,    \* this.animationId, 0 = null
    pending,        \* ids of the frame callbacks the host has scheduled
    mouse,          \* this.mouse = <<x, y, clickX, clickY>>
    isMouseDown,
    uniforms,       \* the program bound and the uniforms set by the last operation
    emitted,        \* the events the last operation handed to emit()
    op,             \* the last operation and how it ended
    drawn,          \* number of draw calls the last operation issued
    scn,            \* history: progress along play / pause / play
    rst,            \* history: the last restart() and what followed it
    press,          \* history: position of the last press
    shaderCode,     \* assembler input: the user's source, a sequence of lines
    fragmentSource, \* createFragmentShader(shaderCode), a sequence of lines
    errorLog,       \* the compiler's info log, a sequence of log lines
    errors,         \* parseErrors(errorLog)
    ctx,            \* the handler suspended in emit() while a listener runs, or ""
    panel,          \* application: the items of the error panel
    markers,        \* application: the error markers of the editor
    eventListeners, \* this.eventListeners, a sequence of listeners
    cursor,         \* emit(): index of the next listener of the for-of loop, 0 = no emit() running
    delivered,      \* history: the listeners the current or last emit() has invoked
    atStart,        \* history: eventListeners when that emit() began
    touched,        \* history: the listeners on() or off() was called with during that emit()
    evop,           \* history: the last call on the event channel
    shaders,        \* the object store 'shaders': a set of ShaderProject records
    nextId,         \* the number generateId() puts in the next id
    clock,          \* Date.now()
    exported,       \* the text the last exportShader() returned, parsed
    imported,       \* what the last importShader() returned
    sop,            \* the last call on the shader manager
    canvas,         \* canvas.width, canvas.height: the backing pixel dimensions
    style,          \* the surface's box in CSS pixels (canvas.style, its bounding rectangle)
    corner,         \* history: the last press was at the top-right corner of the surface
    buttons,        \* application: which of the Play and Pause buttons are displayed
    editorText,     \* application: the text of the editor, getEditorCode()
    currentId,      \* application: currentShader.id, 0 = currentShader is null
    compileTimeout, \* application: compileTimeout, 0 = null
    timers,         \* the timeouts the host has pending, each [id, due]
    writes,         \* the updateShader() calls issued and not yet carried out, in order
    listed,         \* the projects the list of the project manager was built from
    typed,          \* history: the texts typed into the editor, in order
    lastChange,     \* history: the time of the editor's last change
    sinceChange,    \* history: the compiles the timer has run since that change
    saved,          \* history: what the last selection saved, and for which project
    spc,            \* the step a handler of the application has reached, "" = none runs
    aop             \* the last step of the application

glVars == <<program, nextProgram, released, liveShaders>>
timeVars == <<isPlaying, startTime, pausedTime, lastFrameTime, frameCount,
              animationId, pending>>
mouseVars == <<mouse, isMouseDown, press>>
diagVars == <<shaderCode, fragmentSource, errorLog, errors>>
histVars == <<scn, rst>>
coreVars == <<now, glVars, timeVars, mouseVars, uniforms, emitted, op, drawn,
              histVars, diagVars>>
\* What the renderer's handlers leave alone when no listener calls back.
appVars == <<panel, markers>>
evVars == <<eventListeners, cursor, delivered, atStart, touched, evop>>
storeVars == <<shaders, nextId, clock, exported, imported, sop>>
viewVars == <<canvas, style, corner>>
sideVars == <<evVars, storeVars, viewVars>>
sessVars == <<editorText, currentId, compileTimeout, timers, writes, listed,
              typed, lastChange, sinceChange, saved, spc, aop>>
othVars == <<appVars, buttons, sideVars, sessVars>>
extVars == <<ctx, othVars>>
vars == <<coreVars, extVars>>

\* ------------------------------------------------- diagnostic translator
\* The lines createFragmentShader puts before the user's source.
HeaderLines ==
    << "#version 300 es",
       "precision highp float;",
       "",
       "// Shadertoy uniforms",
       "uniform vec3 iResolution;",
       "uniform float iTime;",
       "uniform float iTimeDelta;",
       "uniform int iFrame;",
       "uniform float iFrameRate;",
       "uniform vec4 iMouse;",
       "uniform vec4 iDate;",
       "uniform sampler2D iChannel0;",
       "uniform sampler2D iChannel1;",
       "uniform sampler2D iChannel2;",
       "uniform sampler2D iChannel3;",
       "uniform vec3 iChannelResolution[4];",
       "uniform float iChannelTime[4];",
       "",
       "in vec2 v_texCoord;",
       "out vec4 outColor;",
       "",
       "// User shader code" >>

\* The lines createFragmentShader puts after the user's source.
FooterLines ==
    << "",
       "void main() {",
       "    vec2 fragCoord = v_texCoord * iResolution.xy;",
       "    mainImage(outColor, fragCoord);",
       "}",
       "" >>

createFragmentShader(userCode) == HeaderLines \o userCode \o FooterLines

\* The literal parseErrors subtracts from a reported line.
WrapperOffset == 16

\* A log line is [match, line, message]: match says whether the line has the
\* form ERROR: <id>:<line>: <message>.
RECURSIVE parseErrors(_)
parseErrors(log) ==
    IF log = <<>> THEN <<>>
    ELSE LET l == Head(log)
             lineNum == l.line - WrapperOffset
         IN  IF l.match
             THEN <<[line |-> Max(1, lineNum), message |-> l.message]>>
                      \o parseErrors(Tail(log))
             ELSE parseErrors(Tail(log))

\* -------------------------------------------------- values of the store
\* undefined, for a string that may be missing.
Undef == "<undefined>"

\* null, as importShader returns it.
Null == [isNull |-> TRUE, name |-> "", code |-> ""]

\* No text: nothing has been exported yet.
NoText == [kind |-> "none"]

\* No selection has saved anything yet.
NoSave == [id |-> 0, text |-> "", n |-> 0]

\* ------------------------------------------------------------------ Init
NoUniforms == [program |-> 0, iResolution |-> <<0, 0>>, iTime |-> 0,
               iTimeDelta |-> 0, iFrame |-> 0, iMouse |-> <<0, 0, 0, 0>>]

Init ==
    /\ now = 0
    /\ program = 0 /\ nextProgram = 1 /\ released = {} /\ liveShaders = 0
    /\ isPlaying = FALSE /\ startTime = 0 /\ pausedTime = 0
    /\ lastFrameTime = 0 /\ frameCount = 0
    /\ animationId = 0 /\ pending = {}
    /\ mouse = <<0, 0, 0, 0>> /\ isMouseDown = FALSE
    /\ uniforms = NoUniforms
    /\ emitted = <<>>
    /\ op = [name |-> "new", ret |-> TRUE, how |-> ""]
    /\ drawn = 0
    /\ scn = [phase |-> "fresh", t0 |-> 0, tPause |-> 0, tResume |-> 0]
    /\ rst = [armed |-> FALSE, at |-> 0, clean |-> FALSE, first |-> FALSE]
    /\ press = <<0, 0>>
    /\ shaderCode = <<>> /\ fragmentSource = <<>>
    /\ errorLog = <<>> /\ errors = <<>>
    /\ ctx = ""
    /\ panel = <<>> /\ markers = <<>>
    /\ eventListeners = <<>> /\ cursor = 0
    /\ delivered = <<>> /\ atStart = <<>> /\ touched = {}
    /\ evop = [name |-> "new", l |-> 0]
    /\ shaders = {} /\ nextId = 1 /\ clock = 0
    /\ exported = NoText /\ imported = Null
    /\ sop = [name |-> "new", id |-> 0, ret |-> "ok"]
    /\ canvas = [width |-> MaxCoord, height |-> RectHeight]
    /\ style = [width |-> MaxCoord, height |-> RectHeight]
    /\ corner = FALSE
    /\ buttons = [play |-> TRUE, pause |-> FALSE]
    /\ editorText = "" /\ currentId = 0
    /\ compileTimeout = 0 /\ timers = {} /\ writes = <<>> /\ listed = <<>>
    /\ typed = <<>> /\ lastChange = 0 /\ sinceChange = 0
    /\ saved = NoSave
    /\ spc = "" /\ aop = [name |-> "new"]

\* ----------------------------------------------------------- history
ScnOff == [phase |-> "off", t0 |-> 0, tPause |-> 0, tResume |-> 0]

ScnDisposed == [phase |-> "disposed", t0 |-> 0, tPause |-> 0, tResume |-> 0]

RstIdle == [armed |-> FALSE, at |-> 0, clean |-> FALSE, first |-> FALSE]

\* rst after an operation: draws says that it drew a frame, timelineOp that it
\* was a play(), pause() or dispose().
RstAfter(draws, timelineOp) ==
    LET f == draws /\ rst.armed
        a == rst.armed /\ ~draws
    IN  IF a \/ f
        THEN [armed |-> a, at |-> rst.at,
              clean |-> rst.clean /\ ~timelineOp, first |-> f]
        ELSE RstIdle

\* ------------------------------------------------------------ frame loop
\* The id requestAnimationFrame returns: one that no pending callback has.
FreshId(used) ==
    CHOOSE i \in 1..(Cardinality(used) + 1) :
        i \notin used /\ \A j \in 1..(i - 1) : j \in used

\* getState().time
Elapsed == IF isPlaying THEN now - startTime ELSE pausedTime

getState == [isPlaying |-> isPlaying, time |-> Elapsed, frame |-> frameCount]

\* A renderFrame() that draws whether or not there is a program.
Renders_Always == TRUE

\* renderFrame() returns early when there is no program.
Renders == program # 0

\* A renderFrame() that counts the frame before it sets the uniform.
FrameUniform_After(fc) == fc + 1

\* The iFrame uniform renderFrame() sets when frameCount is fc.
FrameUniform(fc) == fc

\* A renderFrame() that does not count the frame it drew.
FrameCountAfterDraw_Same(fc) == fc

\* frameCount after renderFrame() has drawn.
FrameCountAfterDraw(fc) == fc + 1

\* A renderFrame() that measures the delta from the start of the timeline.
TimeDelta_FromStart(lastFT) == now - startTime

\* timeDelta of renderFrame() when lastFrameTime is lastFT.
TimeDelta(lastFT) == now - lastFT

\* renderFrame(), run when startTime, lastFrameTime, frameCount and isPlaying
\* have the values start, lastFT, fc and playing.
renderFrame(start, lastFT, fc, playing) ==
    IF Renders
    THEN /\ lastFrameTime' = now
         /\ uniforms' = [program |-> program,
                         iResolution |-> <<canvas.width, canvas.height>>,
                         iTime |-> now - start,
                         iTimeDelta |-> TimeDelta(lastFT),
                         iFrame |-> FrameUniform(fc),
                         iMouse |-> mouse]
         /\ frameCount' = FrameCountAfterDraw(fc)
         /\ emitted' = <<[type |-> "frame",
                          state |-> [isPlaying |-> playing,
                                     time |-> now - start,
                                     frame |-> FrameCountAfterDraw(fc)]]>>
         /\ drawn' = 1
    ELSE /\ lastFrameTime' = lastFT
         /\ frameCount' = fc
         /\ emitted' = <<>>
         /\ drawn' = 0
         /\ uniforms' = NoUniforms

\* A play() that forgets the time accumulated before the pause.
ResumeStart_Fresh == now

\* startTime after play() has left the Paused state.
ResumeStart == IF pausedTime > 0 THEN now - pausedTime ELSE now

\* A play() without its guard.
AlreadyPlaying_Never == FALSE

\* The guard of play(): if (this.isPlaying) return.
AlreadyPlaying == isPlaying

play ==
    /\ Renders /\ ~isPlaying => frameCount < MaxFrames
    /\ op' = [name |-> "play", ret |-> TRUE,
              how |-> IF AlreadyPlaying THEN "noop" ELSE ""]
    /\ IF AlreadyPlaying
       THEN /\ emitted' = <<>> /\ drawn' = 0 /\ uniforms' = NoUniforms
            /\ scn' = ScnOff
            /\ rst' = RstAfter(FALSE, FALSE)
            /\ UNCHANGED timeVars
       ELSE /\ isPlaying' = TRUE
            /\ startTime' = ResumeStart
            /\ renderFrame(ResumeStart, now, frameCount, TRUE)
            /\ LET id == FreshId(pending \cup {animationId})
               IN  animationId' = id /\ pending' = pending \cup {id}
            /\ scn' = CASE scn.phase = "fresh" ->
                             [scn EXCEPT !.phase = "played", !.t0 = now]
                        [] scn.phase = "paused" ->
                             [scn EXCEPT !.phase = "resumed", !.tResume = now]
                        [] OTHER -> ScnOff
            /\ rst' = RstAfter(Renders, TRUE)
            /\ UNCHANGED pausedTime
    /\ UNCHANGED <<now, glVars, mouseVars, diagVars>>

\* pausedTime after pause().
PausedAfterPause == now - startTime

\* The part of pause() that dispose() shares.
pauseBody ==
    /\ isPlaying' = FALSE
    /\ pausedTime' = PausedAfterPause
    /\ IF animationId # 0
       THEN pending' = pending \ {animationId} /\ animationId' = 0
       ELSE UNCHANGED <<pending, animationId>>
    /\ emitted' = <<>> /\ drawn' = 0 /\ uniforms' = NoUniforms
    /\ rst' = RstAfter(FALSE, TRUE)
    /\ UNCHANGED <<startTime, lastFrameTime, frameCount>>

pause ==
    /\ op' = [name |-> "pause", ret |-> TRUE, how |-> ""]
    /\ pauseBody
    /\ scn' = IF scn.phase = "played"
              THEN [scn EXCEPT !.phase = "paused", !.tPause = now]
              ELSE ScnOff
    /\ UNCHANGED <<now, glVars, mouseVars, diagVars>>

\* A restart() that leaves the frame counter alone.
RestartFrameCount_Kept == frameCount

\* frameCount as restart() resets it.
RestartFrameCount == 0

restart ==
    /\ op' = [name |-> "restart", ret |-> TRUE, how |-> ""]
    /\ startTime' = now
    /\ pausedTime' = 0
    /\ IF ~isPlaying
       THEN renderFrame(now, now, RestartFrameCount, isPlaying)
       ELSE /\ lastFrameTime' = now /\ frameCount' = RestartFrameCount
            /\ emitted' = <<>> /\ drawn' = 0 /\ uniforms' = NoUniforms
    /\ scn' = ScnOff
    /\ rst' = IF ~isPlaying /\ Renders
              THEN [armed |-> FALSE, at |-> now, clean |-> TRUE, first |-> TRUE]
              ELSE [armed |-> TRUE, at |-> now, clean |-> TRUE, first |-> FALSE]
    /\ UNCHANGED <<now, glVars, mouseVars, diagVars, isPlaying, animationId,
                   pending>>

\* The host runs a scheduled frame callback: render().
frameCallback ==
    \E id \in pending :
        /\ Renders /\ isPlaying => frameCount < MaxFrames
        /\ op' = [name |-> "frame", ret |-> TRUE, how |-> ""]
        /\ IF ~isPlaying
           THEN /\ pending' = pending \ {id}
                /\ emitted' = <<>> /\ drawn' = 0 /\ uniforms' = NoUniforms
                /\ rst' = RstAfter(FALSE, FALSE)
                /\ UNCHANGED <<lastFrameTime, frameCount, animationId>>
           ELSE /\ renderFrame(startTime, lastFrameTime, frameCount, isPlaying)
                /\ LET nid == FreshId(pending \ {id})
                   IN  animationId' = nid /\ pending' = (pending \ {id}) \cup {nid}
                /\ rst' = RstAfter(Renders, FALSE)
        /\ UNCHANGED <<now, glVars, mouseVars, diagVars, isPlaying, startTime,
                       pausedTime, scn>>

dispose ==
    /\ op' = [name |-> "dispose", ret |-> TRUE,
              how |-> IF program # 0 THEN "deleteProgram" ELSE ""]
    /\ pauseBody
    /\ released' = IF program # 0 THEN released \cup {program} ELSE released
    /\ scn' = ScnDisposed
    /\ UNCHANGED <<now, program, nextProgram, liveShaders, mouseVars, diagVars>>

\* Time passes between two handlers.
Tick ==
    /\ now < MaxTime
    /\ now' = now + 1
    /\ op' = [name |-> "tick", ret |-> TRUE, how |-> ""]
    /\ emitted' = <<>> /\ drawn' = 0 /\ uniforms' = NoUniforms
    /\ rst' = RstAfter(FALSE, FALSE)
    /\ UNCHANGED <<glVars, timeVars, mouseVars, diagVars, scn>>

\* --------------------------------------------------------------- compile
\* The ways a compile() call can end, in the order of the code's checks.
Outcomes == {"vsCreate", "vsCompile", "fsCreate", "fsCompile",
             "progCreate", "link", "ok"}

\* The outcomes in which gl.createProgram() returned a program object.
Allocates(outcome) == outcome \in {"link", "ok"}

\* A compile() that stores the new program before it checks the link status.
ProgramAfter_Early(outcome, h) == IF Allocates(outcome) THEN h ELSE program

\* this.program after a compile() that ends with outcome; h is the new program.
ProgramAfter(outcome, h) == IF outcome = "ok" THEN h ELSE program

\* A compile() that deletes the program it has just linked.
ReleasedAfter_New(outcome, h) ==
    IF Allocates(outcome) THEN released \cup {h} ELSE released

\* The program objects deleted by the end of such a compile().
ReleasedAfter(outcome, h) ==
    CASE outcome = "link" -> released \cup {h}
      [] outcome = "ok" /\ program # 0 -> released \cup {program}
      [] OTHER -> released

\* The events such a compile() emits; log is the fragment stage's info log.
CompileEvents(outcome, log) ==
    CASE outcome = "fsCompile" ->
             <<[type |-> "compile-error", errors |-> parseErrors(log)]>>
      [] outcome = "ok" -> <<[type |-> "compile-success"]>>
      [] OTHER -> <<>>

\* Shader objects created, and deleted, by such a compile().
ShadersCreated(outcome) ==
    CASE outcome = "vsCreate" -> 0
      [] outcome \in {"vsCompile", "fsCreate"} -> 1
      [] OTHER -> 2

ShadersDeleted(outcome) ==
    CASE outcome = "vsCreate" -> 0
      [] outcome \in {"vsCompile", "fsCreate"} -> 1
      [] OTHER -> 2

\* compile(code) but for what it returns, the graphics API making it end with
\* outcome; log is the info log of the fragment stage (read only when that
\* stage fails); deleted is the number of shader objects it has deleted when
\* it ends.
compileCore(code, outcome, log, deleted) ==
    /\ Allocates(outcome) => nextProgram <= MaxPrograms
    /\ program' = ProgramAfter(outcome, nextProgram)
    /\ released' = ReleasedAfter(outcome, nextProgram)
    /\ nextProgram' = IF Allocates(outcome) THEN nextProgram + 1 ELSE nextProgram
    /\ liveShaders' = liveShaders + ShadersCreated(outcome) - deleted
    /\ emitted' = CompileEvents(outcome, log)
    /\ drawn' = 0 /\ uniforms' = NoUniforms
    /\ IF outcome \in {"vsCreate", "vsCompile", "fsCreate"}
       THEN UNCHANGED diagVars
       ELSE /\ shaderCode' = code
            /\ fragmentSource' = createFragmentShader(code)
            /\ IF outcome = "fsCompile"
               THEN errorLog' = log /\ errors' = parseErrors(log)
               ELSE errorLog' = <<>> /\ errors' = <<>>
    /\ rst' = RstAfter(FALSE, FALSE)
    /\ UNCHANGED <<now, timeVars, mouseVars, scn>>

\* compile(code) when every listener returns.
compile(code, outcome, log) ==
    /\ op' = [name |-> "compile", ret |-> (outcome = "ok"), how |-> outcome]
    /\ compileCore(code, outcome, log, ShadersDeleted(outcome))

\* The outcomes in which compile() emits an event.
Emitting == {"fsCompile", "ok"}

\* The shader objects compile() has deleted when it calls emit().
ShadersDeletedBeforeEmit(outcome) == IF outcome = "ok" THEN 2 ELSE 0

\* compile(code) when a listener throws: the exception leaves emit() and
\* compile(), which returns nothing.
compileThrow(code, outcome, log) ==
    /\ outcome \in Emitting
    /\ op' = [name |-> "compile", ret |-> FALSE, how |-> outcome,
              threw |-> TRUE]
    /\ compileCore(code, outcome, log, ShadersDeletedBeforeEmit(outcome))

\* ------------------------------------------------------ pointer handlers
\* clientX / clientY of a mouse event over the surface.
ClientXs == RectLeft..(RectLeft + MaxCoord)

ClientYs == RectTop..(RectTop + RectHeight)

SurfaceX(clientX) == clientX - RectLeft

SurfaceY(clientY) == style.height - (clientY - RectTop)

MouseAfterDown(cx, cy) ==
    <<SurfaceX(cx), SurfaceY(cy), SurfaceX(cx), SurfaceY(cy)>>

MouseAfterMove(cx, cy) ==
    IF isMouseDown
    THEN <<SurfaceX(cx), SurfaceY(cy), mouse[3], mouse[4]>>
    ELSE mouse

\* A release that negates the click position without taking its magnitude.
MouseAfterUp_Negate == <<mouse[1], mouse[2], -mouse[3], -mouse[4]>>

MouseAfterUp == <<mouse[1], mouse[2], -Abs(mouse[3]), -Abs(mouse[4])>>

\* A mouseleave that flips the click position the way mouseup does.
MouseAfterLeave_Flip == MouseAfterUp

MouseAfterLeave == mouse

mouseQuiet ==
    /\ emitted' = <<>> /\ drawn' = 0 /\ uniforms' = NoUniforms
    /\ UNCHANGED <<now, glVars, timeVars, diagVars, histVars>>

mousedown(cx, cy) ==
    /\ op' = [name |-> "mousedown", ret |-> TRUE, how |-> ""]
    /\ isMouseDown' = TRUE
    /\ mouse' = MouseAfterDown(cx, cy)
    /\ press' = <<SurfaceX(cx), SurfaceY(cy)>>
    /\ mouseQuiet

mousemove(cx, cy) ==
    /\ op' = [name |-> "mousemove", ret |-> TRUE, how |-> ""]
    /\ mouse' = MouseAfterMove(cx, cy)
    /\ UNCHANGED <<isMouseDown, press>>
    /\ mouseQuiet

mouseup ==
    /\ op' = [name |-> "mouseup", ret |-> TRUE, how |-> ""]
    /\ isMouseDown' = FALSE
    /\ mouse' = MouseAfterUp
    /\ UNCHANGED press
    /\ mouseQuiet

mouseleave ==
    /\ op' = [name |-> "mouseleave", ret |-> TRUE, how |-> ""]
    /\ isMouseDown' = FALSE
    /\ mouse' = MouseAfterLeave
    /\ UNCHANGED press
    /\ mouseQuiet

\* -------------------------------------------------------- specifications
ErrorAt(n) == [line |-> n, match |-> TRUE, message |-> "syntax error"]

Noise == [line |-> 0, match |-> FALSE, message |-> ""]

\* A matching line whose line number is 0, as drivers give for errors without
\* a position.
ErrorNowhere == [line |-> 0, match |-> TRUE, message |-> "undeclared identifier"]

\* A one-line user source, and the info logs a failing fragment stage gives.
OneLine == <<"void mainImage(out vec4 c, in vec2 p) { c = vec4(1.0); }">>

Logs == { <<Noise, ErrorAt(Len(HeaderLines) + 1)>> }

\* The renderer: compile, timeline and frame loop.
Next ==
    \/ Tick /\ UNCHANGED extVars
    \/ /\ \E outcome \in Outcomes, log \in Logs : compile(OneLine, outcome, log)
       /\ UNCHANGED extVars
    \/ play /\ UNCHANGED extVars
    \/ pause /\ UNCHANGED extVars
    \/ restart /\ UNCHANGED extVars
    \/ frameCallback /\ UNCHANGED extVars
    \/ dispose /\ UNCHANGED extVars

Spec == Init /\ [][Next]_vars

\* The pointer handlers.
NextMouse ==
    \/ /\ \E cx \in ClientXs, cy \in ClientYs : mousedown(cx, cy)
       /\ UNCHANGED extVars
    \/ /\ \E cx \in ClientXs, cy \in ClientYs : mousemove(cx, cy)
       /\ UNCHANGED extVars
    \/ mouseup /\ UNCHANGED extVars
    \/ mouseleave /\ UNCHANGED extVars

SpecMouse == Init /\ [][NextMouse]_vars

\* ------------------------------------------------- the surface's two sizes
\* const aspectRatio = 16 / 9.
AspectW == 16
AspectH == 9

\* The bounding rectangle of the surface's container, width and height.
Containers == {<<16, 9>>, <<32, 9>>, <<16, 18>>, <<32, 18>>}

\* window.devicePixelRatio.
MaxPixelRatio == 2
PixelRatios == 1..MaxPixelRatio

\* resize(width, height): the backing pixel dimensions.
resize(width, height) == canvas' = [width |-> width, height |-> height]

\* resizeCanvas() of the application, the container being cw by ch CSS pixels
\* on a screen of device pixel ratio dpr.
resizeCanvas(cw, ch, dpr) ==
    LET byWidth == (cw * AspectH) \div AspectW
        height == IF byWidth > ch THEN ch ELSE byWidth
        width == IF byWidth > ch THEN (ch * AspectW) \div AspectH ELSE cw
    IN  /\ op' = [name |-> "resizeCanvas", ret |-> TRUE, how |-> ""]
        /\ style' = [width |-> width, height |-> height]
        /\ resize(width * dpr, height * dpr)
        /\ corner' = FALSE
        /\ emitted' = <<>> /\ drawn' = 0 /\ uniforms' = NoUniforms
        /\ UNCHANGED <<now, glVars, timeVars, mouseVars, diagVars, histVars>>

\* clientX / clientY of the corners of the surface.
CornerXs == {RectLeft, RectLeft + style.width}

CornerYs == {RectTop, RectTop + style.height}

TopRight(cx, cy) == cx = RectLeft + style.width /\ cy = RectTop

NextPointer ==
    \/ /\ \E c \in Containers, dpr \in PixelRatios : resizeCanvas(c[1], c[2], dpr)
       /\ UNCHANGED <<ctx, appVars, buttons, evVars, storeVars, sessVars>>
    \/ /\ \E cx \in CornerXs, cy \in CornerYs :
              mousedown(cx, cy) /\ corner' = TopRight(cx, cy)
       /\ UNCHANGED <<canvas, style, ctx, appVars, buttons, evVars, storeVars, sessVars>>
    \/ mouseup /\ UNCHANGED extVars
    \/ /\ \E log \in Logs : compile(OneLine, "ok", log)
       /\ UNCHANGED extVars
    \/ restart /\ UNCHANGED extVars

SpecPointer == Init /\ [][NextPointer]_vars

\* The assembler and the diagnostic translator: compile() of every bounded user
\* source, the fragment stage reporting an error at any line of the assembled
\* source.
UserLine == {"void mainImage(out vec4 c, in vec2 p) {", "}"}

UserCodes == UNION { [1..n -> UserLine] : n \in 1..MaxUserLines }

NextDiag ==
    \E code \in UserCodes :
        \E n \in 1..Len(createFragmentShader(code)) :
            \E log \in { <<ErrorAt(n)>>, <<Noise, ErrorAt(n)>>,
                         <<ErrorAt(n), Noise, ErrorNowhere>> } :
                compile(code, "fsCompile", log) /\ UNCHANGED extVars

SpecDiag == Init /\ [][NextDiag]_vars

\* The renderer with listeners that may throw while compile() broadcasts.
\* MaxLiveShaders bounds the shader objects the model lets pile up.
MaxLiveShaders == 4

NextThrow ==
    \/ /\ \E outcome \in Outcomes, log \in Logs : compile(OneLine, outcome, log)
       /\ UNCHANGED extVars
    \/ /\ liveShaders + 2 <= MaxLiveShaders
       /\ \E outcome \in Emitting, log \in Logs :
              compileThrow(OneLine, outcome, log)
       /\ UNCHANGED extVars
    \/ play /\ UNCHANGED extVars
    \/ pause /\ UNCHANGED extVars
    \/ frameCallback /\ UNCHANGED extVars

SpecThrow == Init /\ [][NextThrow]_vars

\* --------------------------------------------- listeners that call back
\* emit() runs the listeners inside the handler that emits.  A listener that
\* calls the renderer back does so while that handler is suspended in emit():
\* ctx names the handler: "render" is render() after renderFrame(), which has
\* requestAnimationFrame left to call; restart() and a successful compile() have
\* nothing left, emit() being their last statement.
MaxPending == 2
MaxListenTime == 1

Quiet == ctx = ""

\* A frame callback up to the emit() of its frame event.
frameEmit ==
    \E id \in pending :
        /\ Quiet /\ isPlaying /\ Renders
        /\ frameCount < MaxFrames /\ Cardinality(pending) < MaxPending
        /\ op' = [name |-> "frame", ret |-> TRUE, how |-> "emit"]
        /\ renderFrame(startTime, lastFrameTime, frameCount, isPlaying)
        /\ pending' = pending \ {id}
        /\ rst' = RstAfter(Renders, FALSE)
        /\ ctx' = "render"
    /\ UNCHANGED othVars
        /\ UNCHANGED <<now, glVars, mouseVars, diagVars, isPlaying, startTime,
                       pausedTime, animationId, scn>>

\* play() up to the emit() of the frame event of the frame it draws.
playEmit ==
    /\ Quiet /\ ~isPlaying /\ Renders
    /\ frameCount < MaxFrames /\ Cardinality(pending) < MaxPending
    /\ op' = [name |-> "play", ret |-> TRUE, how |-> "emit"]
    /\ isPlaying' = TRUE
    /\ startTime' = ResumeStart
    /\ renderFrame(ResumeStart, now, frameCount, TRUE)
    /\ scn' = CASE scn.phase = "fresh" ->
                     [scn EXCEPT !.phase = "played", !.t0 = now]
                [] scn.phase = "paused" ->
                     [scn EXCEPT !.phase = "resumed", !.tResume = now]
                [] OTHER -> ScnOff
    /\ rst' = RstAfter(Renders, TRUE)
    /\ ctx' = "render"
    /\ UNCHANGED othVars
    /\ UNCHANGED <<now, glVars, mouseVars, diagVars, pausedTime, animationId,
                   pending>>

\* Whether render() asks for the next callback once renderFrame() is back.
SchedulesNext == TRUE

\* emit() returns into render(): the rest of render().
renderReturn ==
    /\ ctx = "render"
    /\ ctx' = ""
    /\ UNCHANGED othVars
    /\ op' = [name |-> "scheduled", ret |-> TRUE, how |-> ""]
    /\ IF SchedulesNext
       THEN LET id == FreshId(pending \cup {animationId})
            IN  animationId' = id /\ pending' = pending \cup {id}
       ELSE UNCHANGED <<animationId, pending>>
    /\ emitted' = <<>> /\ drawn' = 0 /\ uniforms' = NoUniforms
    /\ rst' = RstAfter(FALSE, FALSE)
    /\ UNCHANGED <<now, glVars, mouseVars, diagVars, isPlaying, startTime,
                   pausedTime, lastFrameTime, frameCount, scn>>

\* restart() while Paused, up to the emit() of its frame event.
restartEmit ==
    /\ Quiet /\ ~isPlaying /\ Renders
    /\ restart
    /\ ctx' = "restart"
    /\ UNCHANGED othVars

\* A successful compile() up to the emit() of compile-success.
compileOkEmit ==
    /\ Quiet
    /\ compile(OneLine, "ok", <<>>)
    /\ ctx' = "compile-success"
    /\ UNCHANGED othVars

\* The handlers that end with their emit().
Tails == {"restart", "compile-success"}

\* emit() returns into a handler that has nothing left to do.
tailReturn ==
    /\ ctx \in Tails
    /\ ctx' = ""
    /\ UNCHANGED othVars
    /\ op' = [name |-> "return", ret |-> TRUE, how |-> ""]
    /\ emitted' = <<>> /\ drawn' = 0 /\ uniforms' = NoUniforms
    /\ rst' = RstAfter(FALSE, FALSE)
    /\ UNCHANGED <<now, glVars, timeVars, mouseVars, diagVars, scn>>

\* The outcomes of compile() the listener specification draws from.
ListenOutcomes == {"link", "ok"}

\* The renderer with a listener that may call play(), pause() and restart()
\* from inside emit().  The events emitted by those calls reach the listener
\* too; it does not call back a second time.
NextListen ==
    \/ Quiet /\ now < MaxListenTime /\ Tick /\ UNCHANGED extVars
    \/ /\ Quiet
       /\ \E outcome \in ListenOutcomes, log \in Logs :
              compile(OneLine, outcome, log)
       /\ UNCHANGED extVars
    \/ Quiet /\ frameCallback /\ UNCHANGED extVars
    \/ Quiet /\ dispose /\ UNCHANGED extVars
    \/ play /\ UNCHANGED extVars
    \/ pause /\ UNCHANGED extVars
    \/ restart /\ UNCHANGED extVars
    \/ frameEmit
    \/ playEmit
    \/ renderReturn
    \/ restartEmit
    \/ compileOkEmit
    \/ tailReturn

SpecListen == Init /\ [][NextListen]_vars


\* ------------------------------------------------------- the application
\* main.ts drives one renderer and shows its diagnostics in the error panel
\* and as markers in the editor.
\* errorPanel.clear() at the start of the application's compile(); Kept is a
\* compile() that leaves the panel as it was.
PanelCleared_Kept == panel

PanelCleared == <<>>

\* clearErrors() at the start of the application's compile().
MarkersCleared == <<>>

\* The panel after the listener of main.ts has handled the events evs.
RECURSIVE PanelAfter(_, _)
PanelAfter(shown, evs) ==
    IF evs = <<>> THEN shown
    ELSE LET e == Head(evs)
         IN  PanelAfter(CASE e.type = "compile-error" -> e.errors
                          [] e.type = "compile-success" -> <<>>
                          [] OTHER -> shown,
                        Tail(evs))

\* The markers after it has: handleErrors() marks the first diagnostic only.
\* highlightError asks the editor's model for the last column of the line;
\* rejects says whether the editor refuses a line the model does not have, in
\* which case no marker is set.
RECURSIVE MarkersAfter(_, _, _, _)
MarkersAfter(shown, evs, nLines, rejects) ==
    IF evs = <<>> THEN shown
    ELSE LET e == Head(evs)
             next == CASE e.type = "compile-error" ->
                              IF Len(e.errors) = 0 THEN shown
                              ELSE IF e.errors[1].line > nLines /\ rejects
                                   THEN shown
                                   ELSE <<e.errors[1]>>
                       [] e.type = "compile-success" -> <<>>
                       [] OTHER -> shown
         IN  MarkersAfter(next, Tail(evs), nLines, rejects)

\* compile() of main.ts on the editor's text.
\* Controls.updateState(state): the buttons displayed afterwards.
updateState(state) ==
    IF state.isPlaying
    THEN [play |-> FALSE, pause |-> TRUE]
    ELSE [play |-> TRUE, pause |-> FALSE]

\* The buttons after the listener of main.ts has received the events evs.
ButtonsAfter(shown, evs) ==
    LET frames == SelectSeq(evs, LAMBDA e : e.type = "frame")
    IN  IF frames = <<>> THEN shown
        ELSE updateState(frames[Len(frames)].state)

appCompile(code, outcome, log) ==
    /\ compile(code, outcome, log)
    /\ buttons' = ButtonsAfter(buttons, CompileEvents(outcome, log))
    /\ panel' = PanelAfter(PanelCleared, CompileEvents(outcome, log))
    /\ \E rejects \in BOOLEAN :
           markers' = MarkersAfter(MarkersCleared, CompileEvents(outcome, log),
                                   Len(code), rejects)
    /\ UNCHANGED <<ctx, sideVars>>

\* The info logs of a fragment stage that fails: no line that matches, one
\* diagnostic, two diagnostics.
AppLogs == { <<Noise>>, <<ErrorAt(Len(HeaderLines) + 1)>>,
             <<ErrorNowhere, Noise, ErrorAt(Len(HeaderLines) + 1)>> }

\* The Play button, and renderer.play() at the end of init().
appPlay ==
    /\ play
    /\ buttons' = ButtonsAfter(buttons, emitted')
    /\ panel' = PanelAfter(panel, emitted')
    /\ markers' = MarkersAfter(markers, emitted', Len(shaderCode), FALSE)
    /\ UNCHANGED <<ctx, sideVars>>

\* The Pause button.
appPause ==
    /\ pause
    /\ UNCHANGED extVars

\* A frame callback; its frame event reaches the listener of main.ts.
appFrame ==
    /\ frameCallback
    /\ buttons' = ButtonsAfter(buttons, emitted')
    /\ panel' = PanelAfter(panel, emitted')
    /\ markers' = MarkersAfter(markers, emitted', Len(shaderCode), FALSE)
    /\ UNCHANGED <<ctx, sideVars>>

\* The Restart button.
appRestart ==
    /\ restart
    /\ buttons' = ButtonsAfter(buttons, emitted')
    /\ UNCHANGED <<ctx, appVars, sideVars>>

NextApp ==
    \/ /\ \E outcome \in Outcomes, log \in AppLogs :
              appCompile(OneLine, outcome, log)
       /\ UNCHANGED sessVars
    \/ appPlay /\ UNCHANGED sessVars
    \/ appPause
    \/ appRestart /\ UNCHANGED sessVars
    \/ appFrame /\ UNCHANGED sessVars

SpecApp == Init /\ [][NextApp]_vars


\* ------------------------------------------------------ the event channel
\* on(), off() and emit() of the renderer.  A listener is a number; the
\* listener that emit() is running may itself call on() and off().
NumListeners == 2
MaxRegistered == 2

Listeners == 1..NumListeners

Range(seq) == { seq[i] : i \in 1..Len(seq) }

\* indexOf: the first position of l in seq, 0 when there is none.
IndexOf(seq, l) ==
    IF l \in Range(seq)
    THEN CHOOSE i \in 1..Len(seq) :
             seq[i] = l /\ \A j \in 1..(i - 1) : seq[j] # l
    ELSE 0

\* splice(index, 1)
RemoveAt(seq, i) == SubSeq(seq, 1, i - 1) \o SubSeq(seq, i + 1, Len(seq))

\* Someone can call: no emit() is running, or a listener of one is.
CanCall == cursor # 1

on(l) ==
    /\ CanCall
    /\ Len(eventListeners) < MaxRegistered
    /\ eventListeners' = Append(eventListeners, l)
    /\ evop' = [name |-> "on", l |-> l]
    /\ touched' = IF cursor # 0 THEN touched \cup {l} ELSE touched
    /\ UNCHANGED <<cursor, delivered, atStart>>

off(l) ==
    /\ CanCall
    /\ eventListeners' = IF IndexOf(eventListeners, l) # 0
                         THEN RemoveAt(eventListeners, IndexOf(eventListeners, l))
                         ELSE eventListeners
    /\ evop' = [name |-> "off", l |-> l]
    /\ touched' = IF cursor # 0 THEN touched \cup {l} ELSE touched
    /\ UNCHANGED <<cursor, delivered, atStart>>

\* emit(event) is entered: the for-of loop starts at the first element.
emitBegin ==
    /\ cursor = 0
    /\ cursor' = 1
    /\ delivered' = <<>>
    /\ atStart' = eventListeners
    /\ touched' = {}
    /\ evop' = [name |-> "emit", l |-> 0]
    /\ UNCHANGED eventListeners

\* One turn of the for-of loop: the array's iterator reads the array as it is
\* now; the loop ends when the index has passed its end.
emitNext ==
    /\ cursor # 0
    /\ IF cursor <= Len(eventListeners)
       THEN /\ delivered' = Append(delivered, eventListeners[cursor])
            /\ cursor' = cursor + 1
            /\ evop' = [name |-> "listener", l |-> eventListeners[cursor]]
       ELSE /\ cursor' = 0
            /\ evop' = [name |-> "emitted", l |-> 0]
            /\ UNCHANGED delivered
    /\ UNCHANGED <<eventListeners, atStart, touched>>

NextEvents ==
    \/ (\E l \in Listeners : on(l)) /\ UNCHANGED <<coreVars, ctx, appVars, buttons, storeVars, viewVars, sessVars>>
    \/ (\E l \in Listeners : off(l)) /\ UNCHANGED <<coreVars, ctx, appVars, buttons, storeVars, viewVars, sessVars>>
    \/ emitBegin /\ UNCHANGED <<coreVars, ctx, appVars, buttons, storeVars, viewVars, sessVars>>
    \/ emitNext /\ UNCHANGED <<coreVars, ctx, appVars, buttons, storeVars, viewVars, sessVars>>

SpecEvents == Init /\ [][NextEvents]_vars


\* ------------------------------------------------------ the shader manager
\* shader-manager.ts: the projects in the object store, export and import.
MaxShaders == 1
MaxClock == 2

DEFAULT_SHADER == "void mainImage(out vec4 fragColor, in vec2 fragCoord) { ... }"

Names == {"", "Plasma"}

Codes == {"", "void mainImage(out vec4 c, in vec2 p) { c = vec4(1.0); }"}

\* The strings that contain 'mainImage' or 'void main'.
Mentioning == (Codes \ {""}) \cup {DEFAULT_SHADER, "mainImage demo"}

\* An || that yields its right operand always.
Or_Second(a, b) == b

\* a || b on strings: the empty string and undefined are falsy.
Or(a, b) == IF a \in {Undef, ""} THEN b ELSE a

\* files.find(f => f.name === 'main.glsl'): its index, 0 when there is none.
FindMain(files) ==
    IF \E i \in 1..Len(files) : files[i].name = "main.glsl"
    THEN CHOOSE i \in 1..Len(files) :
             /\ files[i].name = "main.glsl"
             /\ \A j \in 1..(i - 1) : files[j].name # "main.glsl"
    ELSE 0

getShaderMainCode(shader) ==
    IF FindMain(shader.files) = 0 THEN ""
    ELSE Or(shader.files[FindMain(shader.files)].code, "")

\* JSON.stringify of exportShader, as JSON.parse reads it back.
exportShader(shader) ==
    [kind |-> "json",
     data |-> [name |-> shader.name,
               files |-> [i \in 1..Len(shader.files) |->
                             [name |-> shader.files[i].name,
                              code |-> shader.files[i].code]],
               exportedAt |-> clock]]

\* json.includes('mainImage') || json.includes('void main')
Mentions(text) ==
    CASE text.kind = "raw" -> text.mentions
      [] text.kind = "json" ->
             \/ \E k \in DOMAIN text.data \ {"files", "exportedAt"} :
                    text.data[k] \in Mentioning
             \/ /\ "files" \in DOMAIN text.data
                /\ \E i \in 1..Len(text.data.files) :
                       text.data.files[i].code \in Mentioning
      [] OTHER -> FALSE

\* The input of importShader as a string.
TextOf(text) == IF text.kind = "raw" THEN text.text ELSE "<the JSON text>"

\* The catch branch of importShader.
ImportRaw(text) ==
    IF Mentions(text)
    THEN [isNull |-> FALSE, name |-> "Imported Shader", code |-> TextOf(text)]
    ELSE Null

importShader(text) ==
    IF text.kind # "json" THEN ImportRaw(text)
    ELSE LET data == text.data
             name == IF "name" \in DOMAIN data THEN data.name ELSE Undef
         IN  IF "files" \in DOMAIN data
             THEN IF Len(data.files) = 0
                  THEN ImportRaw(text)
                  ELSE LET i == FindMain(data.files)
                           mainFile == data.files[IF i = 0 THEN 1 ELSE i]
                       IN  [isNull |-> FALSE,
                            name |-> Or(name, "Imported Shader"),
                            code |-> Or(mainFile.code, "")]
             ELSE IF "code" \in DOMAIN data
                  THEN [isNull |-> FALSE,
                        name |-> Or(name, "Imported Shader"),
                        code |-> data.code]
                  ELSE Null

\* The stored project with this id, as a set of at most one record.
getShader(id) == { sh \in shaders : sh.id = id }

\* What the shader manager's calls leave of the last export and import.
NoExchange == exported' = NoText /\ imported' = Null

\* A createShader that stores the code as it was given.
createShader_AsGiven(name, code) ==
    /\ shaders' = shaders \cup
                     {[id |-> nextId,
                       name |-> name,
                       files |-> <<[name |-> "main.glsl", code |-> code]>>,
                       createdAt |-> clock,
                       updatedAt |-> clock,
                       code |-> Undef]}
    /\ sop' = [name |-> "createShader", id |-> nextId, ret |-> "ok",
               args |-> <<name, code>>]
    /\ nextId' = nextId + 1
    /\ NoExchange
    /\ UNCHANGED clock

\* createShader(name, code) but for what the model records of the call.
createRecord(name, code) ==
    /\ LET shader == [id |-> nextId,
                      name |-> name,
                      files |-> <<[name |-> "main.glsl",
                                   code |-> Or(code, DEFAULT_SHADER)]>>,
                      createdAt |-> clock,
                      updatedAt |-> clock,
                      code |-> Undef]
       IN  shaders' = shaders \cup {shader}
    /\ nextId' = nextId + 1
    /\ NoExchange
    /\ UNCHANGED clock

createShader(name, code) ==
    /\ sop' = [name |-> "createShader", id |-> nextId, ret |-> "ok",
               args |-> <<name, code>>]
    /\ createRecord(name, code)

\* An updateShader that puts a record under an id the store does not have.
updateShader_Upsert(id, uname, ucode) ==
    /\ shaders' = { sh \in shaders : sh.id # id } \cup
                     {[id |-> id,
                       name |-> uname,
                       files |-> <<[name |-> "main.glsl", code |-> ucode]>>,
                       createdAt |-> clock,
                       updatedAt |-> clock,
                       code |-> ucode]}
    /\ sop' = [name |-> "updateShader", id |-> id, ret |-> "ok",
                            args |-> <<uname, ucode>>]
    /\ NoExchange
    /\ UNCHANGED <<nextId, clock>>

\* updateShader(id, {name: uname, code: ucode}), Undef for a missing member.
\* The spread puts every member of the updates into the record, code too.
updateShader(id, uname, ucode) ==
    /\ IF getShader(id) = {}
       THEN /\ sop' = [name |-> "updateShader", id |-> id, ret |-> "error",
                        args |-> <<uname, ucode>>]
            /\ UNCHANGED shaders
       ELSE LET shader == CHOOSE sh \in shaders : sh.id = id
                i == FindMain(shader.files)
                updated ==
                    [shader EXCEPT
                       !.name = IF uname = Undef THEN @ ELSE uname,
                       !.code = IF ucode = Undef THEN @ ELSE ucode,
                       !.updatedAt = clock,
                       !.files = IF ucode # Undef /\ i # 0
                                 THEN [@ EXCEPT ![i].code = ucode]
                                 ELSE @]
            IN  /\ shaders' = (shaders \ {shader}) \cup {updated}
                /\ sop' = [name |-> "updateShader", id |-> id, ret |-> "ok",
                            args |-> <<uname, ucode>>]
    /\ NoExchange
    /\ UNCHANGED <<nextId, clock>>

\* A deleteShader that clears the store.
deleteShader_All(id) ==
    /\ shaders' = {}
    /\ sop' = [name |-> "deleteShader", id |-> id, ret |-> "ok"]
    /\ NoExchange
    /\ UNCHANGED <<nextId, clock>>

deleteShader(id) ==
    /\ shaders' = shaders \ getShader(id)
    /\ sop' = [name |-> "deleteShader", id |-> id, ret |-> "ok"]
    /\ NoExchange
    /\ UNCHANGED <<nextId, clock>>

\* exportShader of a stored project, and importShader of the text it gave.
exportImport(id) ==
    /\ getShader(id) # {}
    /\ LET shader == CHOOSE sh \in shaders : sh.id = id
       IN  /\ exported' = exportShader(shader)
           /\ imported' = importShader(exportShader(shader))
    /\ sop' = [name |-> "exportImport", id |-> id, ret |-> "ok"]
    /\ UNCHANGED <<shaders, nextId, clock>>

\* The texts given to importShader: raw text with and without the words it
\* looks for; the JSON text null; JSON objects with a files array (main.glsl
\* first, second, absent; no file, with and without the words in the name),
\* with a code member, and with neither.
MainFile == [name |-> "main.glsl", code |-> "import code"]

HelperFile == [name |-> "helper.glsl", code |-> "helper"]

ImportTexts ==
    { [kind |-> "raw", text |-> "void mainImage() {}", mentions |-> TRUE],
      [kind |-> "raw", text |-> "not valid json at all {", mentions |-> FALSE],
      [kind |-> "null"] }
    \cup { [kind |-> "json", data |-> d] : d \in
             { [name |-> "Test", files |-> <<MainFile, HelperFile>>],
               [name |-> "Test", files |-> <<HelperFile, MainFile>>],
               [files |-> <<HelperFile>>],
               [name |-> "Test", files |-> <<>>],
               [name |-> "mainImage demo", files |-> <<>>],
               [name |-> "Old Format Shader", code |-> "old format code"],
               [invalid |-> "data"] } }

\* importShader(text) on a text that did not come from exportShader.
importText(text) ==
    /\ imported' = importShader(text)
    /\ exported' = NoText
    /\ sop' = [name |-> "importShader", id |-> 0, ret |-> "ok",
               args |-> <<text>>]
    /\ UNCHANGED <<shaders, nextId, clock>>

\* Date.now() moves on.
clockTick ==
    /\ clock' = clock + 1
    /\ sop' = [name |-> "tick", id |-> 0, ret |-> "ok"]
    /\ NoExchange
    /\ UNCHANGED <<shaders, nextId>>

\* The ids a caller may pass: those generateId() gives, and one it never gave.
Ids == 1..(MaxShaders + 1)

NextStore ==
    \/ /\ nextId <= MaxShaders
       /\ \E name \in Names, code \in Codes \cup {Undef} : createShader(name, code)
       /\ UNCHANGED <<coreVars, ctx, appVars, buttons, evVars, viewVars, sessVars>>
    \/ /\ \E id \in Ids, uname \in Names \cup {Undef}, ucode \in Codes \cup {Undef} :
              updateShader(id, uname, ucode)
       /\ UNCHANGED <<coreVars, ctx, appVars, buttons, evVars, viewVars, sessVars>>
    \/ (\E id \in Ids : deleteShader(id)) /\ UNCHANGED <<coreVars, ctx, appVars, buttons, evVars, viewVars, sessVars>>
    \/ (\E id \in Ids : exportImport(id)) /\ UNCHANGED <<coreVars, ctx, appVars, buttons, evVars, viewVars, sessVars>>
    \/ clock < MaxClock /\ clockTick /\ UNCHANGED <<coreVars, ctx, appVars, buttons, evVars, viewVars, sessVars>>
    \/ /\ \E text \in ImportTexts : importText(text)
       /\ UNCHANGED <<coreVars, ctx, appVars, buttons, evVars, viewVars, sessVars>>

SpecStore == Init /\ [][NextStore]_vars

\* Several projects in the store, made with one name and changed by saving
\* one code.
MaxShelf == 2
MaxShelfClock == 1

ShelfIds == 1..(MaxShelf + 1)

ShelfCode == "void mainImage(out vec4 c, in vec2 p) { c = vec4(1.0); }"

\* The index 'by-updated': the records by updatedAt, then by id.
RECURSIVE ByUpdated(_)
ByUpdated(S) ==
    IF S = {}
    THEN <<>>
    ELSE LET first == CHOOSE x \in S : \A y \in S :
                          \/ x.updatedAt < y.updatedAt
                          \/ x.updatedAt = y.updatedAt /\ x.id <= y.id
         IN  <<first>> \o ByUpdated(S \ {first})

\* A reverse() that leaves the array as it is.
Reverse_Same(seq) == seq

Reverse(seq) == [i \in 1..Len(seq) |-> seq[Len(seq) + 1 - i]]

\* What getAllShaders() returns when the store holds S.
AllShaders(S) == Reverse(ByUpdated(S))

getAllShaders == AllShaders(shaders)

\* A call of getAllShaders().
listShaders ==
    /\ sop' = [name |-> "getAllShaders", id |-> 0, ret |-> "ok",
               list |-> getAllShaders]
    /\ NoExchange
    /\ UNCHANGED <<shaders, nextId, clock>>

getOrCreateDefaultShader ==
    LET all == getAllShaders
    IN  IF Len(all) = 0
        THEN /\ sop' = [name |-> "getOrCreateDefaultShader", id |-> nextId,
                        ret |-> "ok", list |-> all]
             /\ createRecord("Untitled", Undef)
        ELSE /\ sop' = [name |-> "getOrCreateDefaultShader", id |-> all[1].id,
                        ret |-> "ok", list |-> all]
             /\ NoExchange
             /\ UNCHANGED <<shaders, nextId, clock>>

NextShelf ==
    \/ /\ listShaders
       /\ UNCHANGED <<coreVars, ctx, appVars, buttons, evVars, viewVars, sessVars>>
    \/ /\ shaders = {} => nextId <= MaxShelf
       /\ getOrCreateDefaultShader
       /\ UNCHANGED <<coreVars, ctx, appVars, buttons, evVars, viewVars, sessVars>>
    \/ /\ nextId <= MaxShelf
       /\ createShader("Plasma", Undef)
       /\ UNCHANGED <<coreVars, ctx, appVars, buttons, evVars, viewVars, sessVars>>
    \/ /\ \E id \in ShelfIds : updateShader(id, Undef, ShelfCode)
       /\ UNCHANGED <<coreVars, ctx, appVars, buttons, evVars, viewVars, sessVars>>
    \/ /\ \E id \in ShelfIds : deleteShader(id)
       /\ UNCHANGED <<coreVars, ctx, appVars, buttons, evVars, viewVars, sessVars>>
    \/ /\ clock < MaxShelfClock
       /\ clockTick
       /\ UNCHANGED <<coreVars, ctx, appVars, buttons, evVars, viewVars, sessVars>>

SpecShelf == Init /\ [][NextShelf]_vars

\* ------------------------------------------------- the editing session
\* main.ts: the editor, the debounced compile, the project manager and the
\* writes to the store, which are carried out after the handler that issued
\* them has returned, in the order of issue.
MaxEdits == 2
MaxProjects == 2
MaxWrites == 2
MaxSessionTime == 750

\* The delay of scheduleCompile(): window.setTimeout(..., 500).
Debounce == 500

\* The texts the user types, in order; the second has a syntax error.
BrokenText == "void mainImage("

EditTexts ==
    << "void mainImage(out vec4 c, in vec2 p) { c = vec4(0.5); }",
       BrokenText,
       "void mainImage(out vec4 c, in vec2 p) { c = vec4(0.0); }" >>

\* How renderer.compile(text) ends.
CompileOutcome(text) == IF text = BrokenText THEN "fsCompile" ELSE "ok"

SessionLog == <<ErrorAt(Len(HeaderLines) + 1)>>

\* A clearTimeout that cancels nothing.
Cleared_Kept(ts, held) == ts

\* clearTimeout(held): the timeouts still pending.
Cleared(ts, held) == {t \in ts : t.id # held}

\* scheduleCompile() when the timeouts ts are pending and compileTimeout is
\* held: the timeouts pending and compileTimeout afterwards.
scheduleCompile(ts, held) ==
    LET rest == IF held # 0 THEN Cleared(ts, held) ELSE ts
        id == FreshId({t.id : t \in rest} \cup {held})
    IN  [timers |-> rest \cup {[id |-> id, due |-> now + Debounce]},
         compileTimeout |-> id]

\* compile() of main.ts when the editor holds text, currentShader.id is id and
\* the writes of queue are outstanding.
mainCompile(text, id, queue) ==
    /\ appCompile(<<text>>, CompileOutcome(text), SessionLog)
    /\ writes' = IF CompileOutcome(text) = "ok" /\ id # 0
                 THEN Append(queue, [id |-> id, code |-> text])
                 ELSE queue

\* init(): the project is loaded or created and the editor made.
sessionInit ==
    /\ spc = "" /\ currentId = 0
    /\ getOrCreateDefaultShader
    /\ currentId' = sop'.id
    /\ editorText' = Or(getShaderMainCode(CHOOSE sh \in shaders' : sh.id = sop'.id),
                        DEFAULT_SHADER)
    /\ spc' = "compile"
    /\ aop' = [name |-> "init"]
    /\ UNCHANGED <<compileTimeout, timers, writes, listed, typed, lastChange,
                   sinceChange, saved>>

\* init(): compile().
initCompile ==
    /\ spc = "compile"
    /\ mainCompile(editorText, currentId, writes)
    /\ spc' = "play"
    /\ aop' = [name |-> "compile", by |-> "init", code |-> editorText,
               id |-> currentId]
    /\ UNCHANGED <<editorText, currentId, compileTimeout, timers, listed, typed,
                   lastChange, sinceChange, saved>>

\* init(): renderer.play().
initPlay ==
    /\ spc = "play"
    /\ appPlay
    /\ spc' = ""
    /\ aop' = [name |-> "play"]
    /\ UNCHANGED <<editorText, currentId, compileTimeout, timers, writes,
                   listed, typed, lastChange, sinceChange, saved>>

\* The user changes the text: onChange calls scheduleCompile().
edit ==
    /\ spc = "" /\ currentId # 0
    /\ Len(typed) < MaxEdits /\ Len(typed) < Len(EditTexts)
    /\ LET text == EditTexts[Len(typed) + 1]
           sch == scheduleCompile(timers, compileTimeout)
       IN  /\ editorText' = text
           /\ typed' = Append(typed, text)
           /\ timers' = sch.timers
           /\ compileTimeout' = sch.compileTimeout
    /\ lastChange' = now
    /\ sinceChange' = 0
    /\ aop' = [name |-> "edit"]
    /\ UNCHANGED <<currentId, writes, listed, saved, spc>>

\* A timeout of scheduleCompile() is due and the host runs it.
timerFires ==
    /\ spc = ""
    /\ Len(writes) < MaxWrites
    /\ \E t \in timers :
           /\ now >= t.due
           /\ timers' = timers \ {t}
    /\ mainCompile(editorText, currentId, writes)
    /\ sinceChange' = sinceChange + 1
    /\ aop' = [name |-> "compile", by |-> "timer", code |-> editorText,
               id |-> currentId]
    /\ UNCHANGED <<editorText, currentId, compileTimeout, listed, typed,
                   lastChange, saved, spc>>

\* The Compile button.
compileButton ==
    /\ spc = "" /\ currentId # 0
    /\ Len(writes) < MaxWrites
    /\ mainCompile(editorText, currentId, writes)
    /\ aop' = [name |-> "compile", by |-> "button", code |-> editorText,
               id |-> currentId]
    /\ UNCHANGED <<editorText, currentId, compileTimeout, timers, listed, typed,
                   lastChange, sinceChange, saved, spc>>

\* ProjectManager.show(): refreshList() builds the list from getAllShaders().
show ==
    /\ spc = "" /\ currentId # 0
    /\ listed' = getAllShaders
    /\ aop' = [name |-> "show"]
    /\ UNCHANGED <<editorText, currentId, compileTimeout, timers, writes, typed,
                   lastChange, sinceChange, saved, spc>>

\* onSelect(shader) up to and with its compile(); fires says whether the
\* editor reports setValue() as a change.
onSelect(shader, fires) ==
    LET queue == Append(writes, [id |-> currentId, code |-> editorText])
        rest == IF compileTimeout # 0 THEN Cleared(timers, compileTimeout)
                ELSE timers
        text == getShaderMainCode(shader)
        sch == IF fires THEN scheduleCompile(rest, 0)
               ELSE [timers |-> rest, compileTimeout |-> 0]
    IN  /\ currentId # 0
        /\ Len(writes) + 2 <= MaxWrites
        /\ saved' = [id |-> currentId, text |-> editorText, n |-> Len(typed)]
        /\ currentId' = shader.id
        /\ editorText' = text
        /\ timers' = sch.timers
        /\ compileTimeout' = sch.compileTimeout
        /\ lastChange' = IF fires THEN now ELSE lastChange
        /\ sinceChange' = IF fires THEN 0 ELSE sinceChange
        /\ mainCompile(text, shader.id, queue)
        /\ spc' = "restart"
        /\ aop' = [name |-> "select", by |-> "select", code |-> text,
                   id |-> shader.id]
        /\ UNCHANGED <<listed, typed>>

\* A click on an item of the list.
select ==
    /\ spc = ""
    /\ \E i \in 1..Len(listed), fires \in BOOLEAN : onSelect(listed[i], fires)

\* onSelect(): renderer.restart(); then the project manager hides.
selectRestart ==
    /\ spc = "restart"
    /\ appRestart
    /\ spc' = ""
    /\ listed' = <<>>
    /\ aop' = [name |-> "restart"]
    /\ UNCHANGED <<editorText, currentId, compileTimeout, timers, writes, typed,
                   lastChange, sinceChange, saved>>

\* handleCreate(): createShader(name) and refreshList().
handleCreate ==
    /\ spc = "" /\ listed # <<>>
    /\ nextId <= MaxProjects
    /\ createShader("New Project", Undef)
    /\ listed' = AllShaders(shaders')
    /\ spc' = "created"
    /\ aop' = [name |-> "create", id |-> nextId]
    /\ UNCHANGED <<editorText, currentId, compileTimeout, timers, writes, typed,
                   lastChange, sinceChange, saved>>

\* handleCreate(): this.options.onSelect(newShader).
selectCreated ==
    /\ spc = "created"
    /\ \E i \in 1..Len(listed), fires \in BOOLEAN :
           listed[i].id = aop.id /\ onSelect(listed[i], fires)

\* The store carries out the oldest outstanding updateShader().
commitWrite ==
    /\ spc = "" /\ writes # <<>>
    /\ updateShader(Head(writes).id, Undef, Head(writes).code)
    /\ writes' = Tail(writes)
    /\ aop' = [name |-> "write", id |-> Head(writes).id,
               code |-> Head(writes).code]
    /\ UNCHANGED <<editorText, currentId, compileTimeout, timers, listed, typed,
                   lastChange, sinceChange, saved, spc>>

\* d milliseconds pass.
elapse(d) ==
    /\ spc = ""
    /\ now + d <= MaxSessionTime
    /\ now' = now + d
    /\ op' = [name |-> "tick", ret |-> TRUE, how |-> ""]
    /\ emitted' = <<>> /\ drawn' = 0 /\ uniforms' = NoUniforms
    /\ rst' = RstAfter(FALSE, FALSE)
    /\ aop' = [name |-> "elapse"]
    /\ UNCHANGED <<glVars, timeVars, mouseVars, diagVars, scn>>
    /\ UNCHANGED <<editorText, currentId, compileTimeout, timers, writes,
                   listed, typed, lastChange, sinceChange, saved, spc>>

NextSession ==
    \/ sessionInit /\ UNCHANGED <<coreVars, ctx, appVars, buttons, evVars, viewVars>>
    \/ initCompile
    \/ initPlay
    \/ edit /\ UNCHANGED <<coreVars, ctx, appVars, buttons, sideVars>>
    \/ timerFires
    \/ compileButton
    \/ show /\ UNCHANGED <<coreVars, ctx, appVars, buttons, sideVars>>
    \/ select
    \/ selectRestart
    \/ handleCreate /\ UNCHANGED <<coreVars, ctx, appVars, buttons, evVars, viewVars>>
    \/ selectCreated
    \/ commitWrite /\ UNCHANGED <<coreVars, ctx, appVars, buttons, evVars, viewVars>>
    \/ /\ \E d \in {Debounce \div 2, Debounce} : elapse(d)
       /\ UNCHANGED <<ctx, appVars, buttons, sideVars>>

SpecSession == Init /\ [][NextSession]_vars


\* ================================================================ claims

\* C1: a compile() that returns false leaves this.program the handle it was
\* and does not release it; this.program changes only in a compile() that
\* returns true, to the program that compile() linked; and every frame is
\* drawn with this.program, so after a successful compile followed by a
\* failing one the frames still use the last successfully linked program.
C1_FailedCompileKeepsProgram ==
    [][ /\ (op'.name = "compile" /\ ~op'.ret) =>
               /\ program' = program
               /\ (program \in released') <=> (program \in released)
        /\ program' # program =>
               op'.name = "compile" /\ op'.ret /\ program' = nextProgram
        /\ drawn' = 1 => uniforms'.program = program' /\ program' # 0
      ]_vars

\* A link failure that follows a successful compile, while Playing.
C1_Witness ==
    /\ op.name = "compile" /\ op.how = "link"
    /\ program # 0 /\ program \notin released
    /\ isPlaying

\* The matching lines of the info log, in order.
Matching(log) == SelectSeq(log, LAMBDA l : l.match)

\* C2: the number parseErrors subtracts is the number of lines that
\* createFragmentShader puts before the user's first line, so an error the
\* compiler reports at assembled line header_len + k (k >= 1) is translated
\* to user line k.
C2_LineMapping ==
    (op.name = "compile" /\ op.how = "fsCompile") =>
        /\ SubSeq(fragmentSource, WrapperOffset + 1,
                  WrapperOffset + Len(shaderCode)) = shaderCode
        /\ Len(errors) = Len(Matching(errorLog))
        /\ \A i \in 1..Len(errors) :
               LET k == Matching(errorLog)[i].line - Len(HeaderLines)
               IN  k >= 1 => errors[i].line = k

\* C3: fresh renderer, play() at t0, frames during D > 0, pause(), a wait W,
\* play(): from then on getState().time, and iTime of every frame drawn,
\* is D plus the time since the resume.
C3_ResumeContinuity ==
    (scn.phase = "resumed" /\ scn.tPause > scn.t0) =>
        LET d == scn.tPause - scn.t0
        IN  /\ getState.time = d + (now - scn.tResume)
            /\ drawn = 1 => uniforms.iTime = d + (now - scn.tResume)

\* A frame drawn some time after the resume, D and W both positive.
C3_Witness ==
    /\ scn.phase = "resumed"
    /\ scn.tPause > scn.t0 /\ scn.tResume > scn.tPause /\ now > scn.tResume
    /\ op.name = "frame" /\ drawn = 1

\* C4: the elapsed time of getState() does not advance while Paused, does not
\* jump when play() resumes, and goes back only in restart(), to zero.
C4_ElapsedContinuity ==
    [][ /\ (~isPlaying /\ ~isPlaying' /\ op'.name # "restart") =>
               Elapsed' = Elapsed
        /\ (~isPlaying /\ isPlaying') => Elapsed' = Elapsed
        /\ Elapsed' < Elapsed => op'.name = "restart" /\ Elapsed' = 0
      ]_vars

\* C5: pause() while Paused changes neither isPlaying, the logical start
\* time, the paused-accumulated time, frameCount nor the callback handle.
C5_PauseWhilePausedNoOp ==
    [][ (op'.name = "pause" /\ ~isPlaying) =>
            UNCHANGED <<isPlaying, startTime, pausedTime, frameCount,
                        animationId>>
      ]_vars

FrameEvents == SelectSeq(emitted, LAMBDA e : e.type = "frame")

\* What C6 says of the first frame drawn after a restart(): iFrame is 0, and
\* when no play(), pause() or dispose() came between, iTime is the time since
\* the restart.
FirstFrameAfterRestart ==
    (rst.first /\ drawn = 1) =>
        /\ uniforms.iFrame = 0
        /\ rst.clean => uniforms.iTime = now - rst.at

C8_PointerPressDragRelease ==
    [][ /\ op'.name = "mousedown" =>
               mouse' = <<press'[1], press'[2], press'[1], press'[2]>>
        /\ (op'.name = "mousemove" /\ isMouseDown) =>
               mouse'[3] = mouse[3] /\ mouse'[4] = mouse[4]
        /\ isMouseDown' => <<mouse'[3], mouse'[4]>> = press'
        /\ op'.name = "mouseup" =>
               /\ mouse'[1] = mouse[1] /\ mouse'[2] = mouse[2]
               /\ Abs(mouse'[3]) = Abs(mouse[3]) /\ mouse'[3] <= 0
               /\ Abs(mouse'[4]) = Abs(mouse[4]) /\ mouse'[4] <= 0
      ]_vars

\* A release after a drag away from the press position.
C8_Witness ==
    /\ op.name = "mouseup"
    /\ mouse[3] < 0 /\ mouse[4] < 0
    /\ mouse[1] # -mouse[3] /\ mouse[2] # -mouse[4]

\* C9: mouseleave clears the pressed flag and changes none of the four
\* pointer values; a move while no press is held changes none either.
C9_LeaveAndIdleMove ==
    [][ /\ op'.name = "mouseleave" => ~isMouseDown' /\ mouse' = mouse
        /\ (op'.name = "mousemove" /\ ~isMouseDown) => mouse' = mouse
      ]_vars

\* The surface was left during a press: the click position is still positive.
C9_Witness ==
    /\ op.name = "mouseleave" /\ ~isMouseDown
    /\ mouse[3] > 0 /\ mouse[4] > 0

\* C10: a compile() emits at most one event; it emits compile-success exactly
\* when it returns true; when the fragment stage fails or the link fails it
\* emits one compile-error event with the diagnostics of that attempt.
C10_CompileEvents ==
    op.name = "compile" =>
        /\ Len(emitted) <= 1
        /\ op.ret <=> emitted = <<[type |-> "compile-success"]>>
        /\ op.how \in {"fsCompile", "link"} =>
               /\ Len(emitted) = 1
               /\ emitted[1].type = "compile-error"
               /\ op.how = "fsCompile" => emitted[1].errors = errors


\* C11: a successful compile() releases the previous program, and only that
\* one, in the step that stores the newly linked program; a failed compile()
\* releases nothing that was the active program; when the compile-success
\* listener runs, and when it calls restart(), the active program is the new
\* one and is not released; no step but dispose() makes the active program a
\* released one.
C11_SwapReleasesOnlyPrevious ==
    [][ /\ (op'.name = "compile" /\ op'.ret) =>
              /\ program' = nextProgram /\ program' # 0
              /\ program' \notin released'
              /\ released' = released \cup ({program} \ {0})
        /\ (op'.name = "compile" /\ ~op'.ret) =>
              /\ program' = program
              /\ program \notin released' \ released
        /\ ctx' = "compile-success" => program' \notin released'
        /\ (ctx = "compile-success" /\ op'.name = "restart" /\ ~isPlaying) =>
              /\ drawn' = 1
              /\ program' = program
        /\ (op'.name # "dispose" /\ program \notin released) =>
              program' \notin released'
      ]_vars

\* The compile-success listener of a second successful compile() has called
\* restart(), which drew a frame with the new program.
C11_Witness ==
    /\ ctx = "compile-success" /\ op.name = "restart" /\ drawn = 1
    /\ released # {} /\ program \notin released

\* C12: when pause() has completed no frame callback remains scheduled, and
\* render() schedules its successor only if the renderer is Playing at the
\* moment it schedules it.
C12_PauseLeavesNoCallback ==
    [][ /\ op'.name = "pause" => pending' = {}
        /\ op'.name = "scheduled" =>
              (pending' # pending => isPlaying)
      ]_vars

\* C13: a rendered frame sets the uniforms and draws once, with iFrame the
\* frame count before the increment (0 for the frame restart() draws); then
\* frameCount is that plus one; then exactly one frame event is emitted, whose
\* snapshot carries the incremented count; the next callback is not scheduled
\* before the listeners have run, and exactly one is scheduled after.  A step
\* that draws nothing emits no frame event and counts no frame.
C13_FrameOrder ==
    [][ /\ drawn' = 1 =>
              /\ uniforms'.iFrame =
                     IF op'.name = "restart" THEN 0 ELSE frameCount
              /\ frameCount' = uniforms'.iFrame + 1
              /\ Len(emitted') = 1
              /\ emitted'[1].type = "frame"
              /\ emitted'[1].state.frame = frameCount'
              /\ op'.how = "emit" => ctx' = "render" /\ pending' \subseteq pending
        /\ drawn' = 0 =>
              /\ \A i \in 1..Len(emitted') : emitted'[i].type # "frame"
              /\ frameCount' = frameCount \/ op'.name = "restart"
        /\ op'.name = "scheduled" =>
              /\ ctx = "render"
              /\ pending \subseteq pending'
              /\ Cardinality(pending' \ pending) = 1
      ]_vars

\* The second frame of a run is drawn and its listeners are running: iFrame is
\* 1, the count 2, and no successor is scheduled yet.
C13_Witness ==
    /\ ctx = "render" /\ op.name = "frame" /\ drawn = 1
    /\ uniforms.iFrame = 1 /\ frameCount = 2
    /\ pending = {}

\* C14: after dispose() the renderer is Paused, no frame callback is scheduled
\* and the active program is released; a dispose() of a renderer that has only
\* seen time pass and stale callbacks run since its last dispose() calls
\* deleteProgram on nothing and changes no field, pausedTime included.
C14_DisposeIdempotent ==
    [][ op'.name = "dispose" =>
          /\ ~isPlaying' /\ animationId' = 0 /\ pending' = {}
          /\ program' # 0 => program' \in released'
          /\ (scn.phase = "disposed" /\ program \in released \cup {0}) =>
                /\ op'.how # "deleteProgram"
                /\ UNCHANGED <<glVars, timeVars>>
      ]_vars

\* C15: play() called while Playing changes no field of the timeline (state,
\* startTime, pausedTime, lastFrameTime, frameCount), renders no frame, emits
\* nothing and schedules no further callback.
C15_PlayWhilePlayingNoOp ==
    [][ (op'.name = "play" /\ isPlaying) =>
          /\ UNCHANGED <<timeVars, glVars>>
          /\ drawn' = 0
          /\ emitted' = <<>>
      ]_vars

\* play() has returned from its guard on a renderer that is Playing with a
\* program and one callback scheduled.
C15_Witness ==
    /\ op.name = "play" /\ op.how = "noop"
    /\ isPlaying /\ Renders /\ Cardinality(pending) = 1 /\ frameCount > 0

\* C16: parseErrors returns one diagnostic for each line of the log that
\* matches the error pattern, in the order of the log, with that line's
\* message, and none for the other lines; the line of every diagnostic is at
\* least 1: the reported line less the offset, or 1 when that is smaller.
C16_OneDiagnosticPerMatch ==
    (op.name = "compile" /\ op.how = "fsCompile") =>
        LET m == Matching(errorLog)
        IN  /\ Len(errors) = Len(m)
            /\ \A i \in 1..Len(errors) :
                   /\ errors[i].message = m[i].message
                   /\ errors[i].line >= 1
                   /\ errors[i].line \in {1, m[i].line - WrapperOffset}
                   /\ m[i].line - WrapperOffset >= 1 =>
                          errors[i].line = m[i].line - WrapperOffset

\* A log of three lines, the second not matching, the third an error at line
\* 0: two diagnostics, in order, the second at line 1.
C16_Witness ==
    /\ op.name = "compile" /\ op.how = "fsCompile"
    /\ Len(errorLog) = 3 /\ ~errorLog[2].match
    /\ Len(errors) = 2
    /\ errors[1].line > 1 /\ errors[1].message = "syntax error"
    /\ errors[2].line = 1 /\ errors[2].message = "undeclared identifier"

\* C17: every diagnostic of a compile-error event has a line between 1 and the
\* number of lines of the user's source, wherever in the assembled source the
\* compiler reported the error.
C17_DiagnosticsInUserRange ==
    (op.name = "compile" /\ op.how = "fsCompile") =>
        /\ Len(emitted) = 1
        /\ emitted[1].type = "compile-error"
        /\ \A i \in 1..Len(emitted[1].errors) :
               /\ emitted[1].errors[i].line >= 1
               /\ emitted[1].errors[i].line <= Len(shaderCode)

\* The diagnostics of the last compile attempt: those of its compile-error
\* event, none when it emitted no such event.
AttemptDiagnostics ==
    IF emitted # <<>> /\ emitted[1].type = "compile-error"
    THEN emitted[1].errors ELSE <<>>

\* C18: after a compile attempt of the application the error panel shows the
\* diagnostics of that attempt and the editor marks none but those, the first
\* of them when its line is one of the editor's; both
\* are empty after a successful compile, and nothing of an earlier attempt is
\* left; what is shown stays until the next attempt.
C18_DiagnosticsOfLastAttempt ==
    /\ [](op.name = "compile" =>
            /\ panel = AttemptDiagnostics
            /\ markers \in {<<>>} \cup {<<AttemptDiagnostics[i]>> : i \in
                                            1..Len(AttemptDiagnostics)}
            /\ (/\ AttemptDiagnostics # <<>>
                /\ AttemptDiagnostics[1].line <= Len(shaderCode)) =>
                   markers = <<AttemptDiagnostics[1]>>
            /\ op.ret => panel = <<>> /\ markers = <<>>)
    /\ [][op'.name # "compile" => UNCHANGED appVars]_vars

\* An attempt that failed in the vertex stage, after one whose fragment stage
\* gave diagnostics: the panel and the markers are empty.
C18_Witness ==
    /\ op.name = "compile" /\ op.how = "vsCompile"
    /\ errors # <<>>
    /\ panel = <<>> /\ markers = <<>>

\* C19: an emit() invokes the listeners registered while it runs, in the order
\* of their registration: when it returns, every listener that was registered
\* from its beginning to its end has been invoked, and if no on() or off()
\* came between, the listeners invoked are those registered, in order; after
\* off(l), l is not registered; off(l) of a listener that is not registered
\* changes nothing.
C19_BroadcastInRegistrationOrder ==
    [][ /\ evop'.name = "emitted" =>
              /\ Range(atStart) \cap Range(eventListeners) \subseteq Range(delivered)
              /\ atStart = eventListeners => delivered = eventListeners
        /\ evop'.name = "off" =>
              /\ evop'.l \notin Range(eventListeners')
              /\ evop'.l \notin Range(eventListeners) =>
                     eventListeners' = eventListeners
      ]_vars

\* The project that was exported last.
Exportee == CHOOSE sh \in shaders : sh.id = sop.id

\* What C20 says of the text exported: it has the keys name, files and
\* exportedAt and no other, so not id, createdAt or updatedAt.
ExportFormat == DOMAIN exported.data = {"name", "files", "exportedAt"}

C21_UpdateOfMissingIdRejects ==
    [][ sop'.name = "updateShader" =>
          /\ getShader(sop'.id) = {} =>
                 sop'.ret = "error" /\ shaders' = shaders
          /\ getShader(sop'.id) # {} => sop'.ret = "ok"
      ]_vars

\* updateShader has failed on an id that is not stored while a project is.
C21_Witness ==
    /\ sop.name = "updateShader" /\ sop.ret = "error"
    /\ shaders # {} /\ getShader(sop.id) = {}

\* The stored project with id, when there is one.
Stored(id) == CHOOSE sh \in shaders : sh.id = id

\* What C22 lets updateShader change in the record old to give the record
\* new: the name when one is supplied, the code of the file main.glsl when a
\* code is supplied, and updatedAt, which does not decrease.
UpdatedAsSupplied(old, new, uname, ucode) ==
    /\ new.id = old.id
    /\ new.createdAt = old.createdAt
    /\ new.updatedAt >= old.updatedAt
    /\ new.name = IF uname = Undef THEN old.name ELSE uname
    /\ Len(new.files) = Len(old.files)
    /\ \A i \in 1..Len(old.files) :
           /\ new.files[i].name = old.files[i].name
           /\ new.files[i].code =
                  IF ucode # Undef /\ old.files[i].name = "main.glsl"
                  THEN ucode ELSE old.files[i].code
    /\ ucode # Undef => getShaderMainCode(new) = ucode

\* C22: updateShader on a stored project changes only the supplied name, the
\* code of main.glsl and updatedAt; id, createdAt, the files and every other
\* stored field stay, as does every other project; afterwards the main code
\* of the stored project is the supplied code.
C22_UpdateChangesOnlySupplied ==
    [][ (sop'.name = "updateShader" /\ sop'.ret = "ok") =>
          LET old == Stored(sop'.id)
              new == CHOOSE sh \in shaders' : sh.id = sop'.id
          IN  /\ UpdatedAsSupplied(old, new, sop'.args[1], sop'.args[2])
              /\ new.code = old.code
              /\ shaders' \ {new} = shaders \ {old}
      ]_vars

\* C23: deleteShader(id) removes the record with that id and no other:
\* afterwards getShader(id) is undefined and every other project is stored as
\* before; when no project has that id nothing changes.
C23_DeleteRemovesExactlyOne ==
    [][ sop'.name = "deleteShader" =>
          /\ { sh \in shaders' : sh.id = sop'.id } = {}
          /\ shaders' = { sh \in shaders : sh.id # sop'.id }
          /\ getShader(sop'.id) = {} => shaders' = shaders
          /\ UNCHANGED <<nextId, clock>>
      ]_vars

\* One of two stored projects has been deleted; the other is still stored,
\* with the code saved into it.
C23_Witness ==
    /\ sop.name = "deleteShader" /\ nextId = 3
    /\ Cardinality(shaders) = 1
    /\ \E sh \in shaders : sh.id # sop.id /\ getShaderMainCode(sh) = ShelfCode

\* The file importShader is to read in a files array that has a file: the
\* one named main.glsl, the first when none is.
FileToImport(files) == files[IF FindMain(files) = 0 THEN 1 ELSE FindMain(files)]

\* C24: importShader returns, for JSON with a files array, the code of the
\* file named main.glsl or of the first file; for JSON with a string code
\* member, that code; the raw text only when the input is not valid JSON and
\* contains 'mainImage' or 'void main'; null in every other case.
C24_ImportByFormat ==
    sop.name = "importShader" =>
        LET text == sop.args[1]
            isJson == text.kind = "json"
            hasFile == /\ isJson /\ "files" \in DOMAIN text.data
                       /\ Len(text.data.files) > 0
            hasCode == /\ isJson /\ "files" \notin DOMAIN text.data
                       /\ "code" \in DOMAIN text.data
        IN  /\ hasFile => /\ ~imported.isNull
                          /\ imported.code = FileToImport(text.data.files).code
            /\ hasCode => /\ ~imported.isNull
                          /\ imported.code = text.data.code
            /\ (text.kind = "raw" /\ text.mentions) =>
                   /\ ~imported.isNull
                   /\ imported.code = text.text
            /\ (~hasFile /\ ~hasCode /\ ~(text.kind = "raw" /\ text.mentions)) =>
                   imported.isNull

\* The files of a project named main.glsl.
MainFiles(sh) == { i \in 1..Len(sh.files) : sh.files[i].name = "main.glsl" }

\* C25: createShader(name, code) stores, under a new id, a project with the
\* given name, createdAt equal to updatedAt, and one file, main.glsl, whose
\* code is the given code, or the default shader when the code is missing or
\* the empty string; and every stored project has exactly one file named
\* main.glsl, whatever was created, updated and deleted.
C25_CreatedProjectFormat ==
    /\ sop.name = "createShader" =>
          /\ Cardinality(getShader(sop.id)) = 1
          /\ LET sh == Stored(sop.id)
                 code == sop.args[2]
             IN  /\ sh.name = sop.args[1]
                 /\ sh.createdAt = sh.updatedAt /\ sh.createdAt = clock
                 /\ Len(sh.files) = 1
                 /\ sh.files[1].name = "main.glsl"
                 /\ sh.files[1].code = IF code \in {Undef, ""}
                                       THEN DEFAULT_SHADER ELSE code
    /\ \A sh \in shaders : Cardinality(MainFiles(sh)) = 1
    /\ \A sh \in shaders : \A other \in shaders : sh.id = other.id => sh = other

\* createShader was given the empty string as code, some time after the
\* start, and stored the default shader.
C25_Witness ==
    /\ sop.name = "createShader" /\ sop.args[2] = "" /\ clock > 0
    /\ getShaderMainCode(Stored(sop.id)) = DEFAULT_SHADER


\* C26: on every path by which a compile() call finishes, a listener's
\* exception during the broadcast included, every shader object the call
\* created has been released, and so has a program object created by a call
\* that did not store it.
C26_CompileReleasesWhatItCreated ==
    [][op'.name = "compile" =>
          /\ liveShaders' = liveShaders
          /\ (nextProgram' > nextProgram /\ program' # nextProgram)
                 => nextProgram \in released']_vars

\* The part of C26 that holds: a call whose listeners all return.
C26_ReleasedWhenListenersReturn ==
    [][(op'.name = "compile" /\ "threw" \notin DOMAIN op') =>
          /\ liveShaders' = liveShaders
          /\ (nextProgram' > nextProgram /\ program' # nextProgram)
                 => nextProgram \in released']_vars

\* C27: the pointer coordinates pushed as iMouse are in the pixel units of the
\* iResolution pushed in the same frame, y from the bottom edge: while the
\* button pressed at the top-right corner of the surface is held, a frame's
\* click position is (iResolution.x, iResolution.y), whatever the device
\* pixel ratio.
C27_PointerInResolutionUnits ==
    (drawn = 1 /\ corner /\ isMouseDown) =>
        <<uniforms.iMouse[3], uniforms.iMouse[4]>> = uniforms.iResolution

\* What the code does: the click position is the surface's size in CSS
\* pixels, whatever the backing dimensions.
C27_PointerInCssUnits ==
    (drawn = 1 /\ corner /\ isMouseDown) =>
        /\ <<uniforms.iMouse[3], uniforms.iMouse[4]>> = <<style.width, style.height>>
        /\ uniforms.iResolution = <<canvas.width, canvas.height>>

NonIncreasing(list) ==
    \A i \in 1..(Len(list) - 1) : list[i].updatedAt >= list[i + 1].updatedAt

ListsAll(list, S) == Len(list) = Cardinality(S) /\ Range(list) = S

\* C28: getAllShaders returns all stored projects in non-increasing updatedAt
\* order; getOrCreateDefaultShader returns the stored project with the
\* greatest updatedAt when the store is non-empty and creates a project named
\* 'Untitled' only when it is empty; a call that follows another creates
\* nothing.
C28_ListOrderAndDefault ==
    [][/\ sop'.name = "getAllShaders" =>
            /\ shaders' = shaders
            /\ NonIncreasing(sop'.list) /\ ListsAll(sop'.list, shaders)
       /\ sop'.name = "getOrCreateDefaultShader" =>
            IF shaders = {}
            THEN \E sh \in shaders' :
                     /\ shaders' = {sh}
                     /\ sh.id = sop'.id /\ sh.name = "Untitled"
            ELSE /\ shaders' = shaders
                 /\ \E sh \in shaders :
                        /\ sh.id = sop'.id
                        /\ \A other \in shaders :
                               other.updatedAt <= sh.updatedAt
       /\ (sop.name = "getOrCreateDefaultShader"
              /\ sop'.name = "getOrCreateDefaultShader") =>
            shaders' = shaders]_vars

\* getOrCreateDefaultShader has returned, of two projects, the one created
\* first and updated last.
C28_Witness ==
    /\ sop.name = "getOrCreateDefaultShader"
    /\ Len(sop.list) = 2
    /\ sop.list[1].id = sop.id
    /\ sop.list[1].updatedAt > sop.list[2].updatedAt
    /\ sop.list[1].id < sop.list[2].id

\* C29: in every reachable state at most one frame callback is pending,
\* whatever the listeners call during a broadcast.
C29_AtMostOnePendingCallback == Cardinality(pending) <= 1

\* The controls show the Pause button exactly when the renderer is Playing
\* and the Play button exactly when it is Paused.
ButtonsMatch ==
    /\ buttons.pause <=> isPlaying
    /\ buttons.play <=> ~isPlaying

\* C30: once a play(), pause() or restart() issued from the controls has taken
\* effect, at the latest after the next display refresh (the frame callback
\* has run, or none is pending), the controls show the Pause button if and
\* only if the renderer is Playing and the Play button if and only if it is
\* Paused.
C30_ControlsShowState ==
    (/\ op.name \in {"play", "pause", "restart", "frame"}
     /\ op.name = "frame" \/ pending = {}) => ButtonsMatch

\* What holds: a frame that was drawn leaves the controls showing the state
\* the renderer had when it drew it.
C30_ControlsShowLastFrame ==
    (drawn = 1 /\ op.name \in {"play", "restart", "frame"}) => ButtonsMatch

\* C31: the active program handle the renderer holds is never a released
\* handle, and no operation binds a released program, sets uniforms on it or
\* draws with it.
C31_NoUseOfReleasedProgram ==
    /\ program \notin released
    /\ drawn = 1 => uniforms.program \notin released

\* The number of times l occurs in seq.
Count(seq, l) == Cardinality({i \in 1..Len(seq) : seq[i] = l})

\* C32: a listener that is registered (once) when a broadcast starts, and that
\* no on() or off() during the broadcast names, has been invoked exactly once
\* when the broadcast ends, whatever on() and off() calls for other listeners
\* were made during it.
C32_InvokedExactlyOnce ==
    [][evop'.name = "emitted" =>
          \A l \in Range(atStart) \ touched :
              Count(atStart, l) = 1 => Count(delivered, l) = 1]_vars

\* The part of C32 that holds: such a listener is invoked at most once.
C32_InvokedAtMostOnce ==
    [][evop'.name = "emitted" =>
          \A l \in Range(atStart) \ touched :
              Count(atStart, l) = 1 => Count(delivered, l) <= 1]_vars

\* A play() that left the Paused state, or a restart().
MarksTime(o) == (o.name = "play" /\ o.how # "noop") \/ o.name = "restart"

\* C33: play() and restart() mark the time of the call, a rendered frame marks
\* its own time, and nothing else moves the mark; a frame rendered by play()
\* or restart() itself has delta 0, and a frame rendered by a callback has
\* the time since the mark as its delta: the time since the call for the first
\* frame after it, the time since the previous rendered frame for every later
\* one. A callback renders only while Playing, so no time spent Paused lies
\* between the mark and the frame.
C33_TimeDeltaSinceCallOrFrame ==
    [][/\ MarksTime(op') => lastFrameTime' = now'
       /\ drawn' = 1 =>
            /\ lastFrameTime' = now'
            /\ op'.name \in {"play", "restart", "frame"}
            /\ op'.name = "frame" => isPlaying
            /\ uniforms'.iTimeDelta =
                  IF MarksTime(op') THEN 0 ELSE now' - lastFrameTime
       /\ lastFrameTime' # lastFrameTime => MarksTime(op') \/ drawn' = 1
       /\ (~isPlaying /\ isPlaying') => MarksTime(op')]_vars

\* play() found no program; the first frame after it is rendered by a
\* callback, two milliseconds later, once a compile() has succeeded, and its
\* delta is those two milliseconds.
C33_Witness ==
    /\ op.name = "frame" /\ drawn = 1
    /\ uniforms.iFrame = 0
    /\ uniforms.iTimeDelta = 2 /\ uniforms.iTime = 2

\* The texts typed into the editor after the last selection.
TypedSinceSelection == {typed[k] : k \in (saved.n + 1)..Len(typed)}

\* The writes issued have been carried out and no handler is running.
Settled == writes = <<>> /\ spc = ""

\* C34: when a project is selected, the editor text of that moment is what
\* ends up stored for the project that was current, and no later write puts
\* older text in its place: once the writes are carried out, that project
\* holds the text saved or a text typed since.
C34_SelectionSavesEditorText ==
    (saved.id # 0 /\ Settled) =>
        getShaderMainCode(Stored(saved.id)) \in {saved.text} \cup TypedSinceSelection

\* What holds: the same when the project selected is not the one that was
\* current.
C34_SwitchSavesEditorText ==
    (saved.id # 0 /\ saved.id # currentId /\ Settled) =>
        getShaderMainCode(Stored(saved.id)) \in {saved.text} \cup TypedSinceSelection

\* The timeouts of scheduleCompile(): at most one is pending, it is the one
\* compileTimeout names, and it is due Debounce after the last change; a
\* compile() run by a timeout is the only one since the last change, runs
\* no earlier than Debounce after it and compiles the editor's text.
DebounceState ==
    /\ Cardinality(timers) <= 1
    /\ \A t \in timers : t.id = compileTimeout /\ t.due = lastChange + Debounce
    /\ aop.name = "edit" => Cardinality(timers) = 1 /\ sinceChange = 0
    /\ (aop.name = "compile" /\ aop.by = "timer") =>
           /\ timers = {}
           /\ sinceChange = 1
           /\ now >= lastChange + Debounce
           /\ aop.code = editorText /\ aop.id = currentId
           /\ shaderCode = <<editorText>>

\* A step of the session: the pending timeout goes only by running or by a
\* selection, and a compile() queues one write, of the editor's text under
\* the current project, when it succeeded and none when it failed.
DebounceStep ==
    /\ (timers # {} /\ timers' = {}) => aop'.name \in {"compile", "select"}
    /\ aop'.name \in {"compile", "select"} =>
           LET queue == IF aop'.name = "select"
                        THEN Append(writes, [id |-> currentId, code |-> editorText])
                        ELSE writes
           IN  writes' = IF op'.ret
                         THEN Append(queue, [id |-> currentId', code |-> editorText'])
                         ELSE queue
    /\ aop'.name \notin {"compile", "select"} =>
           writes' = writes \/ (writes # <<>> /\ writes' = Tail(writes))

\* C35: at most one debounced compile timer is pending at any time; each
\* editor change cancels the pending one and starts a new one, so that a
\* burst of changes is compiled once by the timer, Debounce after the last
\* change, with the editor text of that moment; compile() persists code only
\* under the project current at that moment and only when it succeeded.
C35_DebouncedCompile == []DebounceState /\ [][DebounceStep]_vars

\* Two changes within the delay, then the timeout runs: the first text was
\* never compiled.
C35_Witness ==
    /\ aop.name = "compile" /\ aop.by = "timer"
    /\ Len(typed) = 2
    /\ nextProgram = 2
    /\ now = lastChange + Debounce

\* A frame callback that runs while the renderer is Playing: with no program
\* it draws nothing, emits nothing and leaves frameCount as it was; with a
\* program it draws, counts and emits the frame; in both cases its successor
\* is scheduled.
IdleFrameStep ==
    (op'.name = "frame" /\ isPlaying) =>
        /\ pending' # {} /\ animationId' \in pending'
        /\ isPlaying'
        /\ IF program = 0
           THEN /\ drawn' = 0 /\ emitted' = <<>>
                /\ uniforms' = NoUniforms
                /\ frameCount' = frameCount
                /\ lastFrameTime' = lastFrameTime
           ELSE /\ drawn' = 1 /\ uniforms'.program = program
                /\ frameCount' = frameCount + 1
                /\ Len(emitted') = 1 /\ emitted'[1].type = "frame"

\* C36: while the renderer is Playing with no active program a frame callback
\* draws nothing, emits no frame event and leaves frameCount unchanged, and
\* it schedules its successor: a callback stays scheduled as long as the
\* renderer is Playing, so that, once a compile() has succeeded, the next
\* callback renders a frame without another play().
C36_IdleFramesKeepLoop ==
    [](isPlaying => pending # {}) /\ [][IdleFrameStep]_vars

\* play() after a failed first compile, then a frame callback.
C36_Witness ==
    /\ op.name = "frame" /\ isPlaying
    /\ program = 0 /\ nextProgram = 1 /\ errorLog # <<>>
    /\ drawn = 0 /\ frameCount = 0
    /\ pending # {}

========================================================================
